---- MODULE Spec2Model ----
(***************************************************************************)
(* State-machine model of 03_multiple_files_spliting_option.py: the batch  *)
(* loop of main(), DuckDBProcessor.process_file with its six chained       *)
(* stages, cleanup, and the SQL the stages execute (extraction filters,    *)
(* symbol decomposition, keyed updates, moneyness CASE, delete + export).  *)
(*                                                                         *)
(* Representation.  A nullable SQL value is <<>> (NULL) or <<v>>.  A DATE  *)
(* is a day number (days since 1970-01-01), a TIME is seconds since        *)
(* midnight.  Text is a tuple of one-character strings; rows hold a symbol *)
(* as an index into SymbolText.  Source prices are in hundredths; of the   *)
(* numeric columns only close is carried (open, high, low, volume and oi   *)
(* go through the very same CAST(ROUND(x)) projection and are read by no   *)
(* later statement).                                                       *)
(***************************************************************************)
EXTENDS Integers, Sequences, FiniteSets, TLC

\* ------------------------------------------------------------------ values

NULL == <<>>
Some(v) == <<v>>
IsNull(x) == x = <<>>
Val(x) == x[1]

Range(s) == {s[i] : i \in 1..Len(s)}
Max(S) == CHOOSE x \in S : \A y \in S : y <= x
Min(S) == CHOOSE x \in S : \A y \in S : x <= y
\* the identity on sequences (it makes TLC build the tuple once, instead of
\* re-evaluating a function constructor at every application)
Seq1(s) == s \o <<>>

\* ------------------------------------------------------------------ text

Upper == {"A","B","C","D","E","F","G","H","I","J","K","L","M",
          "N","O","P","Q","R","S","T","U","V","W","X","Y","Z"}
Digit == {"0","1","2","3","4","5","6","7","8","9"}
Alphabet == <<"-","0","1","2","3","4","5","6","7","8","9",
              "A","B","C","D","E","F","G","H","I","J","K","L","M",
              "N","O","P","Q","R","S","T","U","V","W","X","Y","Z">>
Ord(c) == CHOOSE i \in 1..Len(Alphabet) : Alphabet[i] = c
DigitVal(c) == Ord(c) - 2

\* byte-wise string comparison, as VARCHAR ordering in ORDER BY
RECURSIVE TextLess(_, _)
TextLess(a, b) ==
    IF b = <<>> THEN FALSE
    ELSE IF a = <<>> THEN TRUE
    ELSE IF Ord(Head(a)) # Ord(Head(b)) THEN Ord(Head(a)) < Ord(Head(b))
    ELSE TextLess(Tail(a), Tail(b))

\* LIKE 'p%'
StartsWith(s, p) == Len(s) >= Len(p) /\ SubSeq(s, 1, Len(p)) = p
\* LIKE '%p%'
Contains(s, p) ==
    \E i \in 1..(Len(s) - Len(p) + 1) : SubSeq(s, i, i + Len(p) - 1) = p

RECURSIVE ToInt(_)
ToInt(ds) == IF ds = <<>> THEN 0 ELSE 10 * ToInt(SubSeq(ds, 1, Len(ds) - 1)) + DigitVal(ds[Len(ds)])

RECURSIVE Digits(_)
Digits(n) ==
    IF n < 10 THEN <<Alphabet[n + 2]>>
    ELSE Append(Digits(n \div 10), Alphabet[(n % 10) + 2])

\* ------------------------------------------------------------ dates, times

IsLeap(y) == (y % 4 = 0 /\ y % 100 # 0) \/ y % 400 = 0
DaysInMonth(y, m) ==
    IF m = 2 THEN (IF IsLeap(y) THEN 29 ELSE 28)
    ELSE IF m \in {4, 6, 9, 11} THEN 30 ELSE 31
ValidDate(y, m, d) == y \in 1..9999 /\ m \in 1..12 /\ d >= 1 /\ d <= DaysInMonth(y, m)

\* day number of a civil date (days since 1970-01-01)
DaysFromCivil(y, m, d) ==
    LET yy  == IF m <= 2 THEN y - 1 ELSE y
        era == yy \div 400
        yoe == yy - era * 400
        mp  == IF m > 2 THEN m - 3 ELSE m + 9
        doy == (153 * mp + 2) \div 5 + d - 1
        doe == yoe * 365 + yoe \div 4 - yoe \div 100 + doy
    IN  era * 146097 + doe - 719468

\* extract('dow' from date): Sunday = 0 .. Saturday = 6
DayOfWeek(days) == (days + 4) % 7

\* strptime(date, '%d-%m-%Y') cast to DATE; the text is <<DD, MM, YYYY>>.
\* A text that is no calendar date raises.
StrpDate(txt) ==
    IF ValidDate(txt[3], txt[2], txt[1])
    THEN [err |-> FALSE, val |-> DaysFromCivil(txt[3], txt[2], txt[1])]
    ELSE [err |-> TRUE, val |-> 0]

\* CAST(time AS TIME); the text is <<HH, MM, SS>>.  Out-of-range fields raise.
CastTime(txt) ==
    IF txt[1] \in 0..23 /\ txt[2] \in 0..59 /\ txt[3] \in 0..59
    THEN [err |-> FALSE, val |-> txt[1] * 3600 + txt[2] * 60 + txt[3]]
    ELSE [err |-> TRUE, val |-> 0]

\* comparison of a zero-padded HH:MM:SS text with a literal of the same shape
TimeTextLeq(a, b) ==
    \/ a[1] < b[1]
    \/ a[1] = b[1] /\ a[2] < b[2]
    \/ a[1] = b[1] /\ a[2] = b[2] /\ a[3] <= b[3]

WindowOpen == <<9, 15, 0>>
WindowClose == <<15, 29, 0>>
\* variant: the window without its last second
InWindow_ClosedOpen(t) == TimeTextLeq(WindowOpen, t) /\ ~TimeTextLeq(WindowClose, t)

\* time >= '09:15:00' AND time <= '15:29:00'
InWindow(t) == TimeTextLeq(WindowOpen, t) /\ TimeTextLeq(t, WindowClose)

\* CAST(ROUND(x) AS INTEGER) of a non-negative price given in hundredths
RoundCast(h) == (h + 50) \div 100

\* ------------------------------------------------------- symbol grammar

AllIn(t, a, b, S) == \A i \in a..b : t[i] \in S
TypeTokens == {<<"P","E">>, <<"C","E">>}

\* Matches of ([A-Z]+)(\d{2})([A-Z]{3})(\d{2})(\d+)(PE|CE) starting at s:
\* <<e, f>> with the instrument in s..e and the strike ending at f.
MatchesAt(t, s) ==
    {ef \in (s..Len(t)) \X (1..Len(t)) :
        LET e == ef[1]
            f == ef[2]
        IN  /\ AllIn(t, s, e, Upper)
            /\ e + 10 <= Len(t)
            /\ AllIn(t, e + 1, e + 2, Digit)
            /\ AllIn(t, e + 3, e + 5, Upper)
            /\ AllIn(t, e + 6, e + 7, Digit)
            /\ f >= e + 8
            /\ f + 2 <= Len(t)
            /\ AllIn(t, e + 8, f, Digit)
            /\ SubSeq(t, f + 1, f + 2) \in TypeTokens}

NoGroups == [instrument |-> <<>>, day |-> <<>>, month |-> <<>>, year |-> <<>>,
             strike |-> <<>>, option_type |-> <<>>]

\* regexp_extract(symbol, pattern, g) for g = 1..6: the groups of the leftmost
\* match, each quantifier greedy; the empty string for every group when the
\* pattern matches nowhere (regexp_extract yields '', not NULL, on no match).
RegexpExtract(t) ==
    LET starts == {s \in 1..Len(t) : MatchesAt(t, s) # {}}
    IN  IF starts = {} THEN NoGroups
        ELSE LET s == Min(starts)
                 e == Max({ef[1] : ef \in MatchesAt(t, s)})
                 f == Max({ef[2] : ef \in {x \in MatchesAt(t, s) : x[1] = e}})
             IN  [instrument  |-> SubSeq(t, s, e),
                  day         |-> SubSeq(t, e + 1, e + 2),
                  month       |-> SubSeq(t, e + 3, e + 5),
                  year        |-> SubSeq(t, e + 6, e + 7),
                  strike      |-> SubSeq(t, e + 8, f),
                  option_type |-> SubSeq(t, f + 1, f + 2)]

Int32Max == 2147483647
\* CAST(text AS INTEGER): the empty string, or a number beyond INT32, raises
CastInt(ds) ==
    IF ds = <<>> \/ ~AllIn(ds, 1, Len(ds), Digit) \/ Len(ds) > 10 THEN [err |-> TRUE, val |-> 0]
    ELSE IF ToInt(ds) > Int32Max THEN [err |-> TRUE, val |-> 0]
    ELSE [err |-> FALSE, val |-> ToInt(ds)]

MonthNames == << <<"J","A","N">>, <<"F","E","B">>, <<"M","A","R">>, <<"A","P","R">>,
                 <<"M","A","Y">>, <<"J","U","N">>, <<"J","U","L">>, <<"A","U","G">>,
                 <<"S","E","P">>, <<"O","C","T">>, <<"N","O","V">>, <<"D","E","C">> >>
\* variant: every month token maps one month later
MonthNumber_OneLater(mon) ==
    IF \E i \in 1..12 : MonthNames[i] = mon
    THEN Some(((CHOOSE i \in 1..12 : MonthNames[i] = mon) % 12) + 1)
    ELSE NULL

\* CASE month WHEN 'JAN' THEN 1 ... WHEN 'DEC' THEN 12 END (no ELSE: NULL)
MonthNumber(mon) ==
    IF \E i \in 1..12 : MonthNames[i] = mon
    THEN Some(CHOOSE i \in 1..12 : MonthNames[i] = mon)
    ELSE NULL

\* make_date(y, m, d): NULL when an argument is NULL, raises on a date that
\* does not exist
MakeDate(y, m, d) ==
    IF IsNull(m) THEN [err |-> FALSE, val |-> NULL]
    ELSE IF ValidDate(y, Val(m), d)
         THEN [err |-> FALSE, val |-> Some(DaysFromCivil(y, Val(m), d))]
         ELSE [err |-> TRUE, val |-> NULL]

\* One row of the INSERT INTO splits SELECT for a candidate symbol with regexp
\* groups g seen on trade date dt.  err: a CAST or make_date raised.  The WHERE ... IS NOT
\* NULL filter of the statement looks at instrument, day, month, year (texts,
\* never NULL), strike_price and option_type.
SplitRowOf(sid, g, dt) ==
    LET sp == CastInt(g.strike)
        yr == CastInt(g.year)
        dy == CastInt(g.day)
        ex == IF sp.err \/ yr.err \/ dy.err THEN [err |-> TRUE, val |-> NULL]
              ELSE MakeDate(2000 + yr.val, MonthNumber(g.month), dy.val)
    IN  [err |-> sp.err \/ yr.err \/ dy.err \/ ex.err,
         row |-> [symbol |-> sid, instrument |-> Some(g.instrument),
                  expiry_date |-> ex.val, strike_price |-> Some(sp.val),
                  option_type |-> Some(g.option_type), date |-> dt]]

\* ----------------------------------------------------------- classifier

CE == <<"C","E">>
PE == <<"P","E">>

\* the BETWEEN lo AND hi arms of the CE branch, in the order written
CEBands == << <<-500, -451, "ATM-10">>, <<-450, -401, "ATM-9">>, <<-400, -351, "ATM-8">>,
              <<-350, -301, "ATM-7">>, <<-300, -251, "ATM-6">>, <<-250, -201, "ATM-5">>,
              <<-200, -151, "ATM-4">>, <<-150, -101, "ATM-3">>, <<-100, -51, "ATM-2">>,
              <<-50, 0, "ATM-1">>, <<0, 50, "ATM">>, <<51, 100, "ATM+1">>,
              <<101, 150, "ATM+2">>, <<151, 200, "ATM+3">>, <<201, 250, "ATM+4">>,
              <<251, 300, "ATM+5">>, <<301, 350, "ATM+6">>, <<351, 400, "ATM+7">>,
              <<401, 450, "ATM+8">>, <<451, 500, "ATM+9">>, <<501, 550, "ATM+10">> >>

\* the BETWEEN lo AND hi arms of the PE branch, in the order written
PEBands == << <<-500, -451, "ATM+10">>, <<-450, -401, "ATM+9">>, <<-400, -351, "ATM+8">>,
              <<-350, -301, "ATM+7">>, <<-300, -251, "ATM+6">>, <<-250, -201, "ATM+5">>,
              <<-200, -151, "ATM+4">>, <<-150, -101, "ATM+3">>, <<-100, -51, "ATM+2">>,
              <<-50, 0, "ATM+1">>, <<0, 50, "ATM">>, <<51, 100, "ATM-1">>,
              <<101, 150, "ATM-2">>, <<151, 200, "ATM-3">>, <<201, 250, "ATM-4">>,
              <<251, 300, "ATM-5">>, <<301, 350, "ATM-6">>, <<351, 400, "ATM-7">>,
              <<401, 450, "ATM-8">>, <<451, 500, "ATM-9">>, <<501, 550, "ATM-10">> >>

\* variant: of several arms whose condition is true the last one is taken
FirstBand_LastWins(bands, d) ==
    LET hits == {i \in 1..Len(bands) : bands[i][1] <= d /\ d <= bands[i][2]}
    IN  IF hits = {} THEN NULL ELSE Some(bands[Max(hits)][3])

\* a searched CASE takes the first arm whose condition is true, NULL if none
FirstBand(bands, d) ==
    LET hits == {i \in 1..Len(bands) : bands[i][1] <= d /\ d <= bands[i][2]}
    IN  IF hits = {} THEN NULL ELSE Some(bands[Min(hits)][3])

\* variant: the DEEPITM threshold of the CE branch one too low
CELabel_StrictThreshold(d) ==
    IF d < -501 THEN Some("DEEPITM")
    ELSE IF FirstBand(CEBands, d) # NULL THEN FirstBand(CEBands, d)
    ELSE IF d >= 551 THEN Some("DEEPOTM")
    ELSE NULL

CELabel(d) ==
    IF d <= -501 THEN Some("DEEPITM")
    ELSE IF FirstBand(CEBands, d) # NULL THEN FirstBand(CEBands, d)
    ELSE IF d >= 551 THEN Some("DEEPOTM")
    ELSE NULL

\* variant: the PE branch a copy of the CE branch
PELabel_CopyOfCall(d) ==
    IF d <= -501 THEN Some("DEEPITM")
    ELSE IF FirstBand(CEBands, d) # NULL THEN FirstBand(CEBands, d)
    ELSE IF d >= 551 THEN Some("DEEPOTM")
    ELSE NULL

PELabel(d) ==
    IF d <= -501 THEN Some("DEEPOTM")
    ELSE IF FirstBand(PEBands, d) # NULL THEN FirstBand(PEBands, d)
    ELSE IF d >= 551 THEN Some("DEEPITM")
    ELSE NULL

\* variant: a row that is neither CE nor PE, or has no strike-distance, gets
\* a default label
Moneyness_DefaultLabel(option_type, strdifference) ==
    IF IsNull(option_type) \/ IsNull(strdifference) THEN Some("DEEPOTM")
    ELSE IF Val(option_type) = CE THEN CELabel(Val(strdifference))
    ELSE IF Val(option_type) = PE THEN PELabel(Val(strdifference))
    ELSE Some("DEEPOTM")

\* SET moneyness = CASE WHEN option_type = 'CE' THEN .. WHEN option_type = 'PE'
\* THEN .. END; comparisons with NULL are not true, so NULL falls through
Moneyness(option_type, strdifference) ==
    IF IsNull(option_type) \/ IsNull(strdifference) THEN NULL
    ELSE IF Val(option_type) = CE THEN CELabel(Val(strdifference))
    ELSE IF Val(option_type) = PE THEN PELabel(Val(strdifference))
    ELSE NULL

\* ------------------------------------------------------ gate thresholds

MinOptionRows == 100
MinIndexRows == 10
MinFutureRows == 10
MinSplitRows == 10
MinCalRows == 100

\* ------------------------------------------------- source data (bounded)

NIFTY == <<"N","I","F","T","Y">>
IndexSymbol == NIFTY
FutureSymbol == <<"N","I","F","T","Y","-","I">>

\* expiry token 25JAN24 of the generated option symbols
ExpiryToken == <<"2","5","J","A","N","2","4">>
Strikes == <<21000, 21250, 21500, 21750, 22100>>
NOptSyms == 2 * Len(Strikes)

\* symbols 1..NOptSyms: NIFTY25JAN24<strike>CE / PE; then the index and the
\* future tickers and the irregular option symbols
SymbolText ==
    [i \in 1..NOptSyms |->
        NIFTY \o ExpiryToken \o Digits(Strikes[(i + 1) \div 2]) \o (IF i % 2 = 1 THEN CE ELSE PE)]
    \o << IndexSymbol,
          FutureSymbol,
          <<"B","A","N","K">> \o NIFTY \o ExpiryToken \o Digits(45000) \o CE,
          NIFTY \o <<"X","Y","Z">> \o CE,
          NIFTY \o <<"2","5","X","Y","Z","2","4">> \o Digits(21500) \o CE,
          NIFTY \o <<"X","Y","Z">>,
          NIFTY \o <<"3","1","F","E","B","2","4">> \o Digits(21500) \o CE >>
SidIndex == NOptSyms + 1
SidFuture == NOptSyms + 2
SidBank == NOptSyms + 3
SidNoGrammar == NOptSyms + 4
SidBadMonth == NOptSyms + 5
SidXYZ == NOptSyms + 6
SidNoSuchExpiry == NOptSyms + 7

\* rank of each symbol in byte order, for ORDER BY symbol
SymbolRank ==
    Seq1([i \in 1..Len(SymbolText) |->
            Cardinality({j \in 1..Len(SymbolText) : TextLess(SymbolText[j], SymbolText[i])})])

Day1 == <<1, 1, 2024>>
Day2 == <<2, 1, 2024>>
NoSuchDay == <<31, 2, 2024>>

\* minutes of the session carried by a full day file, from 09:15:00 on
NTimes == 10
MinuteText(k) == <<9, 15 + k, 0>>

SrcRow(sid, d, t, c) == [symbol |-> sid, date |-> d, time |-> t, close |-> c]
OptionRows(d, n) ==
    [i \in 1..n |-> SrcRow(((i - 1) \div NTimes) + 1, d, MinuteText((i - 1) % NTimes),
                           10000 + 125 * i)]
IndexRows(d, n) == [k \in 1..n |-> SrcRow(SidIndex, d, MinuteText(k - 1), 2150000 + 50 * (k - 1))]
FutureRows(d, n) == [k \in 1..n |-> SrcRow(SidFuture, d, MinuteText(k - 1), 2155000 + 50 * (k - 1))]

\* rows at and just outside the two ends of the session window
EdgeRows(d) ==
    << SrcRow(1, d, <<9, 14, 59>>, 9950), SrcRow(2, d, <<15, 29, 0>>, 9960),
       SrcRow(3, d, <<15, 29, 1>>, 9970), SrcRow(SidIndex, d, <<9, 14, 59>>, 2149000),
       SrcRow(SidFuture, d, <<15, 30, 0>>, 2149000), SrcRow(SidBank, d, <<9, 15, 0>>, 30050),
       SrcRow(SidIndex, d, <<15, 29, 0>>, 2151000), SrcRow(SidFuture, d, <<15, 29, 0>>, 2156000),
       SrcRow(SidXYZ, d, <<9, 16, 0>>, 100) >>

FullDay(d) == OptionRows(d, NOptSyms * NTimes) \o IndexRows(d, NTimes) \o FutureRows(d, NTimes) \o EdgeRows(d)

\* the input files of the model, by stem
FileStems == <<"full", "short", "baddate", "nogrammar", "tiny", "fewindex", "fewfuture",
               "twodays", "badmonth", "noexpiry", "legacy">>
\* symbols of the file that spans two trade dates
NTwoDaySyms == 6
FileRows ==
    [full      |-> FullDay(Day1),
     short     |-> OptionRows(Day1, MinOptionRows - 3) \o IndexRows(Day1, NTimes)
                   \o FutureRows(Day1, NTimes) \o EdgeRows(Day1),
     baddate   |-> FullDay(Day1) \o << SrcRow(4, NoSuchDay, <<10, 0, 0>>, 12000) >>,
     nogrammar |-> FullDay(Day1) \o << SrcRow(SidNoGrammar, Day1, <<10, 0, 0>>, 12000) >>,
     tiny      |-> << SrcRow(5, Day1, <<9, 15, 0>>, 10050), SrcRow(5, Day1, <<9, 15, 0>>, 10050),
                      SrcRow(1, Day1, <<9, 16, 0>>, 10149), SrcRow(10, Day1, <<9, 15, 0>>, 10250),
                      SrcRow(9, Day1, <<9, 17, 0>>, 10250), SrcRow(2, Day1, <<9, 14, 0>>, 1) >>
                   \o IndexRows(Day1, 2) \o FutureRows(Day1, 1) \o EdgeRows(Day1),
     fewindex  |-> OptionRows(Day1, NOptSyms * NTimes) \o IndexRows(Day1, MinIndexRows - 2)
                   \o FutureRows(Day1, NTimes) \o EdgeRows(Day1),
     fewfuture |-> OptionRows(Day1, NOptSyms * NTimes) \o IndexRows(Day1, NTimes)
                   \o FutureRows(Day1, MinFutureRows - 2) \o EdgeRows(Day1),
     twodays   |-> OptionRows(Day1, NTwoDaySyms * NTimes) \o OptionRows(Day2, NTwoDaySyms * NTimes)
                   \o IndexRows(Day1, NTimes) \o IndexRows(Day2, NTimes)
                   \o FutureRows(Day1, NTimes) \o FutureRows(Day2, NTimes) \o EdgeRows(Day1),
     badmonth  |-> FullDay(Day1) \o << SrcRow(SidBadMonth, Day1, <<10, 0, 0>>, 12000) >>,
     noexpiry  |-> FullDay(Day1) \o << SrcRow(SidNoSuchExpiry, Day1, <<10, 0, 0>>, 12000) >>,
     legacy    |-> IndexRows(Day1, 2)]

\* the extension of each input file's name: all .parquet but one, which a
\* --file-pattern other than the default *.parquet can match
FileExt(stem) == IF stem = "legacy" THEN ".parq" ELSE ".parquet"

\* ------------------------------------------------------------- file system

\* a path is <<folder, stem, extension>>
InputPath(stem) == <<"in", stem, FileExt(stem)>>
\* str.replace(old, new) on the extension part of a path
ReplaceExt(path, old, new) == IF path[3] = old THEN <<path[1], path[2], new>> ELSE path
\* input_file.replace('.parquet', '.duckdb')
ScratchPath(input_file) == ReplaceExt(input_file, ".parquet", ".duckdb")
\* os.path.join(output_folder, basename.replace('.parquet', '_combined.parquet'))
OutputPath(input_file) == <<"out", input_file[2], IF input_file[3] = ".parquet" THEN "_combined.parquet" ELSE input_file[3]>>
\* os.path.basename(input_file)
BaseName(input_file) == <<input_file[2], input_file[3]>>

Absent == [kind |-> "absent"]
InputFile(stem) == [kind |-> "input", stem |-> stem]
OutputFile(rows) == [kind |-> "output", rows |-> rows]
DbFile(db) == [kind |-> "db", db |-> db]

TableNames == {"options", "index_data", "future_data", "splits", "cal_data"}
\* a database file just created by duckdb.connect: no tables
NewDb == [schema |-> {}, options |-> <<>>, index_data |-> <<>>, future_data |-> <<>>,
          splits |-> <<>>, cal_data |-> <<>>]

\* self.row_counts = {}
NoCounts == [t \in TableNames |-> NULL]

\* ---------------------------------------------------------------- stages
\* Each stage is an operator from the session's database and row_counts to
\* [ok, db, rc]: the value the method returns, and what it leaves behind.

\* setup_database: CREATE TABLE IF NOT EXISTS for the five relations; a
\* relation that exists already keeps its rows
SetupDatabase(db) == [db EXCEPT !.schema = TableNames]

\* variant: the observed count is recorded only when the gate passes
ValidateData_RecordsOnPass(v, db, rc, table_name, expected_min_rows) ==
    IF ~v THEN [ok |-> TRUE, rc |-> rc]
    ELSE IF table_name \notin db.schema THEN [ok |-> FALSE, rc |-> rc]
    ELSE IF Len(db[table_name]) < expected_min_rows THEN [ok |-> FALSE, rc |-> rc]
    ELSE [ok |-> TRUE, rc |-> [rc EXCEPT ![table_name] = Some(Len(db[table_name]))]]

\* variant: the gate counts whether validation is on or off
ValidateData_AlwaysCounts(v, db, rc, table_name, expected_min_rows) ==
    IF table_name \notin db.schema THEN [ok |-> FALSE, rc |-> rc]
    ELSE [ok |-> Len(db[table_name]) >= expected_min_rows,
          rc |-> [rc EXCEPT ![table_name] = Some(Len(db[table_name]))]]

\* validate_data(table_name, expected_min_rows)
ValidateData(v, db, rc, table_name, expected_min_rows) ==
    IF ~v THEN [ok |-> TRUE, rc |-> rc]
    ELSE IF table_name \notin db.schema THEN [ok |-> FALSE, rc |-> rc]
    ELSE [ok |-> Len(db[table_name]) >= expected_min_rows,
          rc |-> [rc EXCEPT ![table_name] = Some(Len(db[table_name]))]]

\* WHERE (symbol LIKE '%CE%' OR symbol LIKE '%PE%')
IsOptionSymbol(t) == Contains(t, CE) \/ Contains(t, PE)
\* WHERE symbol = 'NIFTY'
IsIndexSymbol(t) == t = IndexSymbol
\* WHERE symbol = 'NIFTY-I'
IsFutureSymbol(t) == t = FutureSymbol

\* FROM read_parquet(?) WHERE <symbol filter> AND time >= .. AND time <= ..
\* with the date, time and price casts of the SELECT list; err when a cast
\* of a selected row raises
Extract(rows, Keep(_)) ==
    LET sel == SelectSeq(rows, LAMBDA r : Keep(SymbolText[r.symbol]) /\ InWindow(r.time))
    IN  [err  |-> \E i \in 1..Len(sel) : StrpDate(sel[i].date).err \/ CastTime(sel[i].time).err,
         rows |-> Seq1([i \in 1..Len(sel) |->
                     [symbol |-> sel[i].symbol, date |-> StrpDate(sel[i].date).val,
                      time |-> CastTime(sel[i].time).val, close |-> RoundCast(sel[i].close)]])]

Failed(db, rc) == [ok |-> FALSE, db |-> db, rc |-> rc]

\* create_option_data; src is [err, rows]: what read_parquet gives
CreateOptionData(v, db, rc, src) ==
    LET x == Extract(src.rows, IsOptionSymbol)
    IN  IF src.err \/ x.err THEN Failed(db, rc)
        ELSE LET db2 == [db EXCEPT !.options = @ \o x.rows]
                 g   == ValidateData(v, db2, rc, "options", MinOptionRows)
             IN  [ok |-> g.ok, db |-> db2, rc |-> g.rc]

\* create_index_data
CreateIndexData(v, db, rc, src) ==
    LET g0 == ValidateData(v, db, rc, "options", 1)
        x  == Extract(src.rows, IsIndexSymbol)
    IN  IF ~g0.ok THEN Failed(db, g0.rc)
        ELSE IF src.err \/ x.err THEN Failed(db, g0.rc)
        ELSE LET db2 == [db EXCEPT !.index_data = @ \o
                            [i \in 1..Len(x.rows) |-> [date |-> x.rows[i].date, time |-> x.rows[i].time,
                                                       idx_close |-> x.rows[i].close]]]
                 g   == ValidateData(v, db2, g0.rc, "index_data", MinIndexRows)
             IN  [ok |-> g.ok, db |-> db2, rc |-> g.rc]

\* create_future_data
CreateFutureData(v, db, rc, src) ==
    LET g0 == ValidateData(v, db, rc, "options", 1)
        g1 == ValidateData(v, db, g0.rc, "index_data", 1)
        x  == Extract(src.rows, IsFutureSymbol)
    IN  IF ~g0.ok THEN Failed(db, g0.rc)
        ELSE IF ~g1.ok THEN Failed(db, g1.rc)
        ELSE IF src.err \/ x.err THEN Failed(db, g1.rc)
        ELSE LET db2 == [db EXCEPT !.future_data = @ \o
                            [i \in 1..Len(x.rows) |-> [date |-> x.rows[i].date, time |-> x.rows[i].time,
                                                       fut_close |-> x.rows[i].close]]]
                 g   == ValidateData(v, db2, g1.rc, "future_data", MinFutureRows)
             IN  [ok |-> g.ok, db |-> db2, rc |-> g.rc]

\* the six regexp_extract groups of every symbol of the model
SymbolGroups == Seq1([i \in 1..Len(SymbolText) |-> RegexpExtract(SymbolText[i])])

\* a set of <<symbol, date>> pairs as a sequence (by symbol index, then date)
RECURSIVE PairsToSeq(_)
PairsToSeq(S) ==
    IF S = {} THEN <<>>
    ELSE LET m == CHOOSE x \in S : \A y \in S : x[1] < y[1] \/ (x[1] = y[1] /\ x[2] <= y[2])
         IN  <<m>> \o PairsToSeq(S \ {m})

\* SELECT DISTINCT symbol, <groups>, date FROM options WHERE symbol LIKE 'NIFTY%'
SplitCandidates(options) ==
    PairsToSeq({<<options[i].symbol, options[i].date>> : i \in
                   {j \in 1..Len(options) : StartsWith(SymbolText[options[j].symbol], NIFTY)}})

\* WHERE instrument IS NOT NULL AND day IS NOT NULL AND month IS NOT NULL AND
\* year IS NOT NULL AND strike_price IS NOT NULL AND option_type IS NOT NULL
SplitKept(p, g) ==
    /\ ~IsNull(p.row.instrument) /\ ~IsNull(Some(g.day)) /\ ~IsNull(Some(g.month))
    /\ ~IsNull(Some(g.year)) /\ ~IsNull(p.row.strike_price) /\ ~IsNull(p.row.option_type)

\* create_split_data
CreateSplitData(v, db, rc) ==
    LET g0   == ValidateData(v, db, rc, "options", 1)
        cand == SplitCandidates(db.options)
        par  == [i \in 1..Len(cand) |-> SplitRowOf(cand[i][1], SymbolGroups[cand[i][1]], cand[i][2])]
        kept == SelectSeq([i \in 1..Len(cand) |-> i],
                          LAMBDA i : SplitKept(par[i], SymbolGroups[cand[i][1]]))
    IN  IF ~g0.ok THEN Failed(db, g0.rc)
        ELSE IF \E i \in 1..Len(cand) : par[i].err THEN Failed(db, g0.rc)
        ELSE LET db2 == [db EXCEPT !.splits = @ \o [k \in 1..Len(kept) |-> par[kept[k]].row]]
                 g   == ValidateData(v, db2, g0.rc, "splits", MinSplitRows)
             IN  [ok |-> g.ok, db |-> db2, rc |-> g.rc]

\* INSERT INTO cal_data (symbol, date, time, .., close, ..) SELECT .. FROM
\* options: the columns not listed are NULL
SeedRow(o) ==
    [symbol |-> o.symbol, date |-> o.date, time |-> o.time, close |-> o.close,
     instrument |-> NULL, expiry_date |-> NULL, strike_price |-> NULL, option_type |-> NULL,
     spot |-> NULL, idx_close |-> NULL, fut_close |-> NULL,
     expiry_day |-> NULL, strdifference |-> NULL, dte |-> NULL, moneyness |-> NULL]

\* Which of several joined-from rows with the same key an UPDATE .. FROM
\* uses is the engine's choice; pick names it: the first or the last match.
PickOf(M, pick) == IF pick = "first" THEN Min(M) ELSE Max(M)

\* UPDATE t SET .. FROM other WHERE <key equality>: every row of t with at
\* least one match is rewritten once; no row is added or removed
UpdateFrom(t, other, Match(_, _), Set(_, _), pick) ==
    Seq1([i \in 1..Len(t) |->
            LET M == {j \in 1..Len(other) : Match(t[i], other[j])}
            IN  IF M = {} THEN t[i] ELSE Set(t[i], other[PickOf(M, pick)])])

\* variant: Step 5.2 as an inner join (rows without a splits row are lost)
UpdateFromSplits_InnerJoin(cal, splits, pick) ==
    SelectSeq(UpdateFrom(cal, splits,
                         LAMBDA c, x : c.symbol = x.symbol,
                         LAMBDA c, x : [c EXCEPT !.instrument = x.instrument, !.expiry_date = x.expiry_date,
                                                 !.strike_price = x.strike_price, !.option_type = x.option_type],
                         pick),
              LAMBDA c : \E j \in 1..Len(splits) : splits[j].symbol = c.symbol)

\* Step 5.2
UpdateFromSplits(cal, splits, pick) ==
    UpdateFrom(cal, splits,
               LAMBDA c, x : c.symbol = x.symbol,
               LAMBDA c, x : [c EXCEPT !.instrument = x.instrument, !.expiry_date = x.expiry_date,
                                       !.strike_price = x.strike_price, !.option_type = x.option_type],
               pick)
\* Step 5.3
UpdateFromIndex(cal, index_data, pick) ==
    UpdateFrom(cal, index_data,
               LAMBDA c, x : c.date = x.date /\ c.time = x.time,
               LAMBDA c, x : [c EXCEPT !.idx_close = Some(x.idx_close), !.spot = Some(x.idx_close)],
               pick)
\* Step 5.4
UpdateFromFuture(cal, future_data, pick) ==
    UpdateFrom(cal, future_data,
               LAMBDA c, x : c.date = x.date /\ c.time = x.time,
               LAMBDA c, x : [c EXCEPT !.fut_close = Some(x.fut_close)],
               pick)

\* variant: the strike-distance with its sign flipped
Derive_SpotMinusStrike(c) ==
    [c EXCEPT !.expiry_day = IF IsNull(c.expiry_date) THEN NULL ELSE Some(DayOfWeek(Val(c.expiry_date))),
              !.strdifference = IF IsNull(c.strike_price) \/ IsNull(c.spot) THEN NULL
                                ELSE Some(Val(c.spot) - Val(c.strike_price)),
              !.dte = IF IsNull(c.expiry_date) THEN NULL ELSE Some(Val(c.expiry_date) - c.date)]

\* Step 5.5: an expression with a NULL operand is NULL
Derive(c) ==
    [c EXCEPT !.expiry_day = IF IsNull(c.expiry_date) THEN NULL ELSE Some(DayOfWeek(Val(c.expiry_date))),
              !.strdifference = IF IsNull(c.strike_price) \/ IsNull(c.spot) THEN NULL
                                ELSE Some(Val(c.strike_price) - Val(c.spot)),
              !.dte = IF IsNull(c.expiry_date) THEN NULL ELSE Some(Val(c.expiry_date) - c.date)]

\* Step 5.6
Classify(c) == [c EXCEPT !.moneyness = Moneyness(c.option_type, c.strdifference)]

\* Steps 5.1 to 5.6 on the relations
Enrich(db, pick) ==
    LET c1 == db.cal_data \o [i \in 1..Len(db.options) |-> SeedRow(db.options[i])]
        c2 == UpdateFromSplits(c1, db.splits, pick)
        c3 == UpdateFromIndex(c2, db.index_data, pick)
        c4 == UpdateFromFuture(c3, db.future_data, pick)
    IN  Seq1([i \in 1..Len(c4) |-> Classify(Derive(c4[i]))])

\* create_cal_data
CreateCalData(v, db, rc, pick) ==
    LET g0 == ValidateData(v, db, rc, "options", 1)
        g1 == ValidateData(v, db, g0.rc, "splits", 1)
        g2 == ValidateData(v, db, g1.rc, "index_data", 1)
        g3 == ValidateData(v, db, g2.rc, "future_data", 1)
    IN  IF ~g0.ok THEN Failed(db, g0.rc)
        ELSE IF ~g1.ok THEN Failed(db, g1.rc)
        ELSE IF ~g2.ok THEN Failed(db, g2.rc)
        ELSE IF ~g3.ok THEN Failed(db, g3.rc)
        ELSE LET db2 == [db EXCEPT !.cal_data = Enrich(db, pick)]
                 g   == ValidateData(v, db2, g3.rc, "cal_data", MinCalRows)
             IN  [ok |-> g.ok, db |-> db2, rc |-> g.rc]

DeepLabels == {Some("DEEPITM"), Some("DEEPOTM")}
\* variant: the delete names one of the two labels only
DeleteDeep_OneLabel(cal) == SelectSeq(cal, LAMBDA c : c.moneyness # Some("DEEPITM"))

\* DELETE FROM cal_data WHERE moneyness IN ('DEEPITM', 'DEEPOTM'); a NULL
\* moneyness does not satisfy IN
DeleteDeep(cal) == SelectSeq(cal, LAMBDA c : c.moneyness \notin DeepLabels)

\* ORDER BY date, time, symbol
KeyLess(a, b) ==
    \/ a.date < b.date
    \/ a.date = b.date /\ a.time < b.time
    \/ a.date = b.date /\ a.time = b.time /\ SymbolRank[a.symbol] < SymbolRank[b.symbol]

\* SELECT * FROM cal_data ORDER BY date, time, symbol; rows equal on the key
\* come out in an order of the engine's choice: tie names it, table order
\* ("asc") or its reverse
OrderBy(cal, tie) ==
    LET before(i, j) == \/ KeyLess(cal[i], cal[j])
                        \/ /\ ~KeyLess(cal[j], cal[i])
                           /\ IF tie = "asc" THEN i < j ELSE j < i
        perm == SortSeq(Seq1([i \in 1..Len(cal) |-> i]), before)
    IN  Seq1([p \in 1..Len(cal) |-> cal[perm[p]]])

\* filter_and_export; io_fault: the COPY .. TO raises.  out is the artifact
\* written, NULL if none.
FilterAndExport(v, db, rc, tie, io_fault) ==
    LET g0  == ValidateData(v, db, rc, "cal_data", 1)
        db2 == [db EXCEPT !.cal_data = DeleteDeep(db.cal_data)]
    IN  IF ~g0.ok THEN [ok |-> FALSE, db |-> db, rc |-> g0.rc, out |-> NULL]
        ELSE IF io_fault THEN [ok |-> FALSE, db |-> db2, rc |-> g0.rc, out |-> NULL]
        ELSE [ok |-> TRUE, db |-> db2, rc |-> g0.rc, out |-> Some(OrderBy(db2.cal_data, tie))]

\* ------------------------------------------------------------------ state

VARIABLES
    input_files,       \* glob.glob(file_pattern): the matched paths, in list order
    cmdline,           \* the invocation: whether --validate is on the command line, and the
                       \* value of validate_data (USER INPUT SECTION) it defaults to
    validate,          \* processor.validate (args.validate)
    keep_temp,         \* processor.keep_temp (args.keep_temp)
    pc,                \* where main() is
    iter,              \* main: position of the for loop in input_files
    file_count,        \* main: files taken from the list so far
    successful_count,  \* main: calls of process_file that returned true
    failed_files,      \* processor.failed_files: <<basename, reason>> pairs
    conn,              \* processor.conn: "None" or "open"
    row_counts,        \* processor.row_counts
    current_file,      \* processor.current_file (NULL for None)
    current_output,    \* processor.current_output
    db_file,           \* processor.db_file
    fs,                \* the files on disk, by path; a scratch file holds its relations
    stage,             \* process_file: the stage of the chain to call next, 0 outside it
    success,           \* process_file: the value of the chain so far
    ret,               \* what process_file returned (NULL: nothing yet, or it raised)
    exc,               \* exception in flight to main: "none", "KeyboardInterrupt", "Exception"
    exit_code,         \* what main() returned (NULL while it runs)
    hist,              \* per call of process_file: what ran (history; no guard reads it)
    cls,               \* the classifier on its own: one strike-distance and its labels
    gate               \* validate_data on its own: the arguments of one call and what it returned

vars == <<input_files, cmdline, validate, keep_temp, pc, iter, file_count, successful_count, failed_files,
          conn, row_counts, current_file, current_output, db_file, fs, stage, success, ret,
          exc, exit_code, hist, cls, gate>>

\* the stages chained by process_file, in the order of the and-expression
StageNames == <<"create_option_data", "create_index_data", "create_future_data",
                "create_split_data", "create_cal_data", "filter_and_export">>

\* number of files a run may match
MaxFiles == 2

Stems == Range(FileStems)
AllPaths == UNION {{InputPath(x), ScratchPath(InputPath(x)), OutputPath(InputPath(x))} : x \in Stems}

\* the kinds of file a batch of several files is drawn from: one that is
\* exported, one that fails a gate, one that fails in a stage
BatchStems == {"full", "short", "nogrammar"}

\* the lists glob can return: no file, any one file, or distinct files of the
\* batch kinds in any order
FileLists ==
    {<<>>} \cup {<<InputPath(x)>> : x \in Stems}
    \cup UNION {{[i \in 1..n |-> InputPath(f[i])] :
                   f \in {g \in [1..n -> BatchStems] : \A i, j \in 1..n : i # j => g[i] # g[j]}}
                : n \in 2..MaxFiles}

\* the value of validate_data the repository ships (USER INPUT SECTION)
validate_data == TRUE

\* argparse action='store_true' with a default: the flag can only turn it on
StoreTrue(flag, default) == flag \/ default

\* the relations of the open session: the content of the scratch database
Db == fs[Val(db_file)].db

\* read_parquet(current_file)
ReadParquet ==
    IF fs[Val(current_file)].kind = "input"
    THEN [err |-> FALSE, rows |-> FileRows[fs[Val(current_file)].stem]]
    ELSE [err |-> TRUE, rows |-> <<>>]

\* the option_type values a row can carry: CE, PE, another text, NULL
OptionTypes == {Some(CE), Some(PE), Some(<<"X","X">>), NULL}
\* no call of validate_data on its own
NoGate == [table_name |-> "options", expected_min_rows |-> 1, returned |-> NULL]
NoClassification == [strdifference |-> NULL, applied |-> FALSE, moneyness |-> [t \in OptionTypes |-> NULL]]

\* stage k of the chain of process_file on database db (validation on, the
\* engine's choices fixed)
ChainStage(k, db, rc, src) ==
    CASE k = 1 -> CreateOptionData(TRUE, db, rc, src)
      [] k = 2 -> CreateIndexData(TRUE, db, rc, src)
      [] k = 3 -> CreateFutureData(TRUE, db, rc, src)
      [] k = 4 -> CreateSplitData(TRUE, db, rc)
      [] k = 5 -> CreateCalData(TRUE, db, rc, "first")
      [] OTHER -> FilterAndExport(TRUE, db, rc, "asc", FALSE)

\* the database the chain leaves when entered at stage k with database db
RECURSIVE ChainFrom(_, _, _, _)
ChainFrom(k, db, rc, src) ==
    IF k > Len(StageNames) THEN db
    ELSE CHOOSE out \in {IF r.ok THEN ChainFrom(k + 1, r.db, r.rc, src) ELSE r.db :
                            r \in {ChainStage(k, db, rc, src)}} : TRUE

\* the scratch database an earlier run over the same input leaves behind when
\* it kept it (--keep-temp, or os.remove raised): the relations as the chain
\* of process_file left them
EarlierRun(stem) ==
    ChainFrom(1, SetupDatabase(NewDb), NoCounts, [err |-> FALSE, rows |-> FileRows[stem]])

\* the disk when main() starts: the matched inputs; the scratch paths are
\* free, or (stale) hold what an earlier run left
InitialFiles(files, stale) ==
    [p \in AllPaths |->
        IF p \in Range(files) THEN InputFile(p[2])
        ELSE IF stale /\ \E f \in Range(files) : p = ScratchPath(f) THEN DbFile(EarlierRun(p[2]))
        ELSE Absent]

Init ==
    /\ input_files \in FileLists
    /\ cmdline \in [validate_flag : BOOLEAN, validate_data : BOOLEAN]
    /\ validate = StoreTrue(cmdline.validate_flag, cmdline.validate_data)
    /\ \E flag \in BOOLEAN, default \in BOOLEAN : keep_temp = StoreTrue(flag, default)
    /\ pc = "glob"
    /\ iter = 0
    /\ file_count = 0
    /\ successful_count = 0
    /\ failed_files = <<>>
    /\ conn = "None"
    /\ row_counts = NoCounts
    /\ current_file = NULL
    /\ current_output = NULL
    /\ db_file = NULL
    /\ \E stale \in BOOLEAN : fs = InitialFiles(input_files, stale)
    /\ stage = 0
    /\ success = TRUE
    /\ ret = NULL
    /\ exc = "none"
    /\ exit_code = NULL
    /\ hist = <<>>
    /\ cls = NoClassification
    /\ gate = NoGate

Cur == Len(hist)
Ran(name, ok) == [hist EXCEPT ![Cur].ran = Append(@, <<name, ok>>)]

\* ------------------------------------------------------------------ main

\* main, lines 696-703: no match is exit code 1
Glob ==
    /\ pc = "glob"
    /\ IF input_files = <<>>
       THEN exit_code' = Some(1) /\ pc' = "done"
       ELSE exit_code' = exit_code /\ pc' = "loop"
    /\ UNCHANGED <<input_files, cmdline, validate, keep_temp, iter, file_count, successful_count, failed_files,
                   conn, row_counts, current_file, current_output, db_file, fs, stage, success,
                   ret, exc, hist, cls, gate>>

\* for input_file in input_files: the file the loop takes after n iterations
NextFile(files, n) == files[n + 1]
\* variant: the loop stops one file short of the list
MoreFiles_StopsShort(files, n) == n + 1 < Len(files)
MoreFiles(files, n) == n < Len(files)

\* main, lines 706-714: take the next file and call process_file
LoopNext ==
    /\ pc = "loop"
    /\ MoreFiles(input_files, iter)
    /\ iter' = iter + 1
    /\ file_count' = file_count + 1
    /\ hist' = Append(hist, [file |-> NextFile(input_files, iter), ran |-> <<>>, ret |-> NULL,
                             cleanups |-> 0, rm_tried |-> FALSE, rm_failed |-> FALSE,
                             exported |-> FALSE])
    /\ ret' = NULL
    /\ success' = TRUE
    /\ pc' = "process"
    /\ UNCHANGED <<input_files, cmdline, validate, keep_temp, successful_count, failed_files, conn,
                   row_counts, current_file, current_output, db_file, fs, stage, exc, exit_code, cls, gate>>

\* variant: the summary returns 1 when a file failed
Summary_FailureStatus ==
    /\ pc = "loop"
    /\ ~MoreFiles(input_files, iter)
    /\ exit_code' = Some(IF successful_count = file_count THEN 0 ELSE 1)
    /\ pc' = "done"
    /\ UNCHANGED <<input_files, cmdline, validate, keep_temp, iter, file_count, successful_count, failed_files,
                   conn, row_counts, current_file, current_output, db_file, fs, stage, success,
                   ret, exc, hist, cls, gate>>

\* main, lines 724-746: the loop is exhausted; summary and return 0
Summary ==
    /\ pc = "loop"
    /\ ~MoreFiles(input_files, iter)
    /\ exit_code' = Some(0)
    /\ pc' = "done"
    /\ UNCHANGED <<input_files, cmdline, validate, keep_temp, iter, file_count, successful_count, failed_files,
                   conn, row_counts, current_file, current_output, db_file, fs, stage, success,
                   ret, exc, hist, cls, gate>>

\* ---------------------------------------------------------- process_file

\* duckdb.connect(path): creates the database file when there is none, opens
\* it when it is a database, raises on any other file
ConnectTarget(f) ==
    IF f.kind = "absent" THEN [err |-> FALSE, db |-> NewDb]
    ELSE IF f.kind = "db" THEN [err |-> FALSE, db |-> f.db]
    ELSE [err |-> TRUE, db |-> NewDb]

\* process_file, lines 244-252: connect to the scratch database, set it up
ProcessFileBegin ==
    /\ pc = "process"
    /\ LET f == hist[Cur].file
           t == ConnectTarget(fs[ScratchPath(f)])
       IN  /\ ~t.err
           /\ current_file' = Some(f)
           /\ current_output' = Some(OutputPath(f))
           /\ db_file' = Some(ScratchPath(f))
           /\ conn' = "open"
           /\ fs' = [fs EXCEPT ![ScratchPath(f)] = DbFile(SetupDatabase(t.db))]
    /\ stage' = 1
    /\ pc' = "stages"
    /\ hist' = Ran("setup_database", TRUE)
    /\ UNCHANGED <<input_files, cmdline, validate, keep_temp, iter, file_count, successful_count,
                   failed_files, row_counts, success, ret, exc, exit_code, cls, gate>>

\* process_file, lines 244-249 and 265-269: connect raises (the scratch path
\* holds no database, or an I/O fault of the host); the handler appends to
\* failed_files and returns false
ProcessFileRaises ==
    /\ pc = "process"
    /\ LET f == hist[Cur].file
       IN  /\ current_file' = Some(f)
           /\ current_output' = Some(OutputPath(f))
           /\ db_file' = Some(ScratchPath(f))
           /\ failed_files' = Append(failed_files, <<BaseName(f), "IO Error">>)
    /\ success' = FALSE
    /\ ret' = Some(FALSE)
    /\ pc' = "finally"
    /\ hist' = Ran("setup_database", FALSE)
    /\ UNCHANGED <<input_files, cmdline, validate, keep_temp, iter, file_count, successful_count, conn,
                   row_counts, fs, stage, exc, exit_code, cls, gate>>

\* variant: the chain without short-circuit (every stage is called)
NextStage_NoShortCircuit(k, ok) == IF k < Len(StageNames) THEN k + 1 ELSE 0
\* success = (a() and b() and ...): the stage called after stage k returned ok,
\* 0 when the chain ends
NextStage(k, ok) == IF ok /\ k < Len(StageNames) THEN k + 1 ELSE 0

\* one stage of the chain has returned r
StageDone(k, r) ==
    /\ fs' = [fs EXCEPT ![Val(db_file)] = DbFile(r.db)]
    /\ row_counts' = r.rc
    /\ success' = (success /\ r.ok)
    /\ stage' = NextStage(k, r.ok)
    /\ IF NextStage(k, r.ok) = 0
       THEN ret' = Some(success /\ r.ok) /\ pc' = "finally"
       ELSE ret' = ret /\ pc' = pc
    /\ hist' = Ran(StageNames[k], r.ok)
    /\ UNCHANGED <<input_files, cmdline, validate, keep_temp, iter, file_count, successful_count,
                   failed_files, conn, current_file, current_output, db_file, exc, exit_code, cls, gate>>

StepCreateOptionData ==
    /\ pc = "stages" /\ stage = 1
    /\ \E r \in {CreateOptionData(validate, Db, row_counts, ReadParquet)} : StageDone(1, r)

StepCreateIndexData ==
    /\ pc = "stages" /\ stage = 2
    /\ \E r \in {CreateIndexData(validate, Db, row_counts, ReadParquet)} : StageDone(2, r)

StepCreateFutureData ==
    /\ pc = "stages" /\ stage = 3
    /\ \E r \in {CreateFutureData(validate, Db, row_counts, ReadParquet)} : StageDone(3, r)

StepCreateSplitData ==
    /\ pc = "stages" /\ stage = 4
    /\ \E r \in {CreateSplitData(validate, Db, row_counts)} : StageDone(4, r)

StepCreateCalData ==
    /\ pc = "stages" /\ stage = 5
    /\ \E pick \in {"first", "last"} :
          \E r \in {CreateCalData(validate, Db, row_counts, pick)} : StageDone(5, r)

\* filter_and_export: the last stage; a successful COPY writes the artifact
StepFilterAndExport ==
    /\ pc = "stages" /\ stage = 6
    /\ \E tie \in {"asc", "desc"}, io_fault \in BOOLEAN :
          \E r \in {FilterAndExport(validate, Db, row_counts, tie, io_fault)} :
              /\ fs' = [fs EXCEPT ![Val(db_file)] = DbFile(r.db),
                                  ![Val(current_output)] =
                                      IF IsNull(r.out) THEN @ ELSE OutputFile(Val(r.out))]
              /\ row_counts' = r.rc
              /\ success' = (success /\ r.ok)
              /\ stage' = NextStage(6, r.ok)
              /\ ret' = Some(success /\ r.ok)
              /\ pc' = "finally"
              /\ hist' = [Ran(StageNames[6], r.ok) EXCEPT ![Cur].exported = ~IsNull(r.out)]
    /\ UNCHANGED <<input_files, cmdline, validate, keep_temp, iter, file_count, successful_count,
                   failed_files, conn, current_file, current_output, db_file, exc, exit_code, cls, gate>>

\* a KeyboardInterrupt arrives while process_file is in its try block,
\* before its first assignment or between two stages: no except Exception
\* clause catches it, the finally clause runs
InterruptInFile ==
    /\ pc \in {"process", "stages"}
    /\ exc' = "KeyboardInterrupt"
    /\ pc' = "finally"
    /\ UNCHANGED <<input_files, cmdline, validate, keep_temp, iter, file_count, successful_count,
                   failed_files, conn, row_counts, current_file, current_output, db_file, fs,
                   stage, success, ret, exit_code, hist, cls, gate>>

\* what os.remove leaves at a path: nothing, or the file when it raised
RemoveFile(f, fails) == IF fails THEN f ELSE Absent

\* variant: the keep_temp test inverted
WantsRemove_Inverted(keep, path, files) == keep /\ ~IsNull(path) /\ files[Val(path)].kind # "absent"
\* whether cleanup calls os.remove
WantsRemove(keep, path, files) == ~keep /\ ~IsNull(path) /\ files[Val(path)].kind # "absent"

\* cleanup, lines 639-659 (the finally clause of process_file)
Cleanup ==
    /\ pc = "finally"
    /\ conn' = "None"
    /\ \E fails \in BOOLEAN :
          IF WantsRemove(keep_temp, db_file, fs)
          THEN /\ fs' = [fs EXCEPT ![Val(db_file)] = RemoveFile(@, fails)]
               /\ hist' = [hist EXCEPT ![Cur].cleanups = @ + 1, ![Cur].rm_tried = TRUE,
                                       ![Cur].rm_failed = fails, ![Cur].ret = ret]
          ELSE /\ ~fails
               /\ fs' = fs
               /\ hist' = [hist EXCEPT ![Cur].cleanups = @ + 1, ![Cur].ret = ret]
    /\ current_file' = NULL
    /\ current_output' = NULL
    /\ db_file' = NULL
    /\ row_counts' = NoCounts
    /\ stage' = 0
    /\ pc' = "return"
    /\ UNCHANGED <<input_files, cmdline, validate, keep_temp, iter, file_count, successful_count,
                   failed_files, success, ret, exc, exit_code, cls, gate>>

\* main, lines 714-722: process_file returned; count it and go on
AfterFile ==
    /\ pc = "return"
    /\ exc = "none"
    /\ successful_count' = IF Val(ret) THEN successful_count + 1 ELSE successful_count
    /\ pc' = "loop"
    /\ UNCHANGED <<input_files, cmdline, validate, keep_temp, iter, file_count, failed_files, conn,
                   row_counts, current_file, current_output, db_file, fs, stage, success, ret,
                   exc, exit_code, hist, cls, gate>>

\* main, lines 748-750: the KeyboardInterrupt reaches main, which returns 130
Interrupted ==
    /\ \/ pc = "return" /\ exc = "KeyboardInterrupt"
       \/ pc = "loop"
    /\ exc' = "KeyboardInterrupt"
    /\ exit_code' = Some(130)
    /\ pc' = "done"
    /\ UNCHANGED <<input_files, cmdline, validate, keep_temp, iter, file_count, successful_count,
                   failed_files, conn, row_counts, current_file, current_output, db_file, fs,
                   stage, success, ret, hist, cls, gate>>

\* main, lines 751-754: any other exception raised inside main's try (building
\* the processor, glob, the loop body outside process_file) is logged and
\* main returns 1
Unhandled ==
    /\ pc \in {"glob", "loop"}
    /\ exc' = "Exception"
    /\ exit_code' = Some(1)
    /\ pc' = "done"
    /\ UNCHANGED <<input_files, cmdline, validate, keep_temp, iter, file_count, successful_count,
                   failed_files, conn, row_counts, current_file, current_output, db_file, fs,
                   stage, success, ret, hist, cls, gate>>

Next ==
    \/ Glob
    \/ LoopNext
    \/ Summary
    \/ ProcessFileBegin
    \/ ProcessFileRaises
    \/ StepCreateOptionData
    \/ StepCreateIndexData
    \/ StepCreateFutureData
    \/ StepCreateSplitData
    \/ StepCreateCalData
    \/ StepFilterAndExport
    \/ InterruptInFile
    \/ Cleanup
    \/ AfterFile
    \/ Interrupted
    \/ Unhandled

Spec == Init /\ [][Next]_vars

\* ------------------------------------------------ the classifier on its own

\* largest |strike-distance| drawn
MaxDist == 700
Distances == {NULL} \cup {Some(d) : d \in (0 - MaxDist)..MaxDist}

\* the rest of the state is that of a run that matches no file
InitClassifier ==
    /\ input_files = <<>>
    /\ cmdline = [validate_flag |-> FALSE, validate_data |-> validate_data]
    /\ validate = TRUE
    /\ keep_temp = FALSE
    /\ pc = "classifier"
    /\ iter = 0
    /\ file_count = 0
    /\ successful_count = 0
    /\ failed_files = <<>>
    /\ conn = "None"
    /\ row_counts = NoCounts
    /\ current_file = NULL
    /\ current_output = NULL
    /\ db_file = NULL
    /\ fs = [p \in AllPaths |-> Absent]
    /\ stage = 0
    /\ success = TRUE
    /\ ret = NULL
    /\ exc = "none"
    /\ exit_code = NULL
    /\ hist = <<>>
    /\ \E d \in Distances : cls = [NoClassification EXCEPT !.strdifference = d]
    /\ gate = NoGate

\* Step 5.6 on rows of every option type at the drawn strike-distance
ApplyMoneyness ==
    /\ pc = "classifier"
    /\ ~cls.applied
    /\ cls' = [cls EXCEPT !.applied = TRUE,
                          !.moneyness = [t \in OptionTypes |-> Moneyness(t, cls.strdifference)]]
    /\ UNCHANGED <<input_files, cmdline, validate, keep_temp, pc, iter, file_count, successful_count,
                   failed_files, conn, row_counts, current_file, current_output, db_file, fs,
                   stage, success, ret, exc, exit_code, hist, gate>>

NextClassifier == ApplyMoneyness

SpecClassifier == InitClassifier /\ [][NextClassifier]_vars

\* ---------------------------------------------- validate_data on its own

\* most rows the relation named in the call holds
MaxGateRows == 102
\* the thresholds validate_data is called with: the default and the gates
GateThresholds == {1, MinIndexRows, MinOptionRows}

\* a session on the scratch database of one file, in the middle of the
\* chain: the relation the call names holds up to MaxGateRows rows or does
\* not exist, validation is on or off, the ledger is empty or holds the
\* count of an earlier call
InitValidate ==
    /\ input_files = <<InputPath("full")>>
    /\ validate \in BOOLEAN
    /\ cmdline = [validate_flag |-> FALSE, validate_data |-> validate]
    /\ keep_temp = FALSE
    /\ pc = "validate_data"
    /\ iter = 1
    /\ file_count = 1
    /\ successful_count = 0
    /\ failed_files = <<>>
    /\ conn = "open"
    /\ current_file = Some(InputPath("full"))
    /\ current_output = Some(OutputPath(InputPath("full")))
    /\ db_file = Some(ScratchPath(InputPath("full")))
    /\ stage = 0
    /\ success = TRUE
    /\ ret = NULL
    /\ exc = "none"
    /\ exit_code = NULL
    /\ hist = <<>>
    /\ cls = NoClassification
    /\ \E D \in {EarlierRun("full")} :
          \E t \in TableNames, m \in GateThresholds, n \in 0..MaxGateRows,
             exists \in BOOLEAN, seen \in BOOLEAN :
              /\ gate = [table_name |-> t, expected_min_rows |-> m, returned |-> NULL]
              /\ row_counts = IF seen THEN [NoCounts EXCEPT !["options"] = Some(Len(D.options))]
                               ELSE NoCounts
              /\ fs = [p \in AllPaths |->
                          IF p = ScratchPath(InputPath("full"))
                          THEN DbFile([D EXCEPT
                                          ![t] = IF exists THEN SubSeq(@, 1, Min({n, Len(@)})) ELSE <<>>,
                                          !.schema = IF exists THEN TableNames ELSE TableNames \ {t}])
                          ELSE IF p = InputPath("full") THEN InputFile("full")
                          ELSE Absent]

\* one call of validate_data: it issues two SELECT statements and writes
\* row_counts; it writes no relation
ApplyValidateData ==
    /\ pc = "validate_data"
    /\ IsNull(gate.returned)
    /\ \E r \in {ValidateData(validate, Db, row_counts, gate.table_name, gate.expected_min_rows)} :
          /\ gate' = [gate EXCEPT !.returned = Some(r.ok)]
          /\ row_counts' = r.rc
    /\ UNCHANGED <<input_files, cmdline, validate, keep_temp, pc, iter, file_count, successful_count,
                   failed_files, conn, current_file, current_output, db_file, fs, stage, success,
                   ret, exc, exit_code, hist, cls>>

NextValidate == ApplyValidateData

SpecValidate == InitValidate /\ [][NextValidate]_vars


\* =================================================================== claims

\* the files passed to process_file so far, in call order
Processed == [i \in 1..Len(hist) |-> hist[i].file]
IsPrefix(s, t) == Len(s) <= Len(t) /\ \A i \in 1..Len(s) : s[i] = t[i]
\* the calls of process_file that returned false
FailedCalls == {i \in 1..Len(hist) : hist[i].ret = Some(FALSE)}
\* call i of process_file has ended (its finally clause has run)
Ended(i) == i < Len(hist) \/ pc \in {"return", "loop", "done"}
\* setup_database and the six chained stages, in call order
ChainNames == <<"setup_database">> \o StageNames

\* C1: the loop passes the matched files to process_file one by one in list
\* order, whatever the earlier files did; when the loop has run to its end
\* every matched file was passed exactly once, file_count is the number of
\* matched files and successful_count plus the number of failed files is
\* file_count.
C1_EveryFileOnceInOrder ==
    /\ IsPrefix(Processed, input_files)
    /\ file_count = Len(hist)
    /\ exit_code = Some(0) =>
          /\ Processed = input_files
          /\ file_count = Len(input_files)
          /\ successful_count + Cardinality(FailedCalls) = file_count

\* a batch run to its end in which the first file raised and the second,
\* taken after it, was exported
C1_Witness ==
    /\ exit_code = Some(0)
    /\ Len(hist) = 2
    /\ hist[1].ran = << <<"setup_database", FALSE>> >>
    /\ hist[1].ret = Some(FALSE)
    /\ hist[2].ret = Some(TRUE)
    /\ successful_count = 1

\* C2: every call of process_file that returned false has its file name in
\* failed_files, and at the end of the batch failed_files has one entry per
\* failed file.
C2_EveryFailureLogged ==
    /\ \A i \in FailedCalls :
          \E j \in 1..Len(failed_files) : failed_files[j][1] = BaseName(hist[i].file)
    /\ exit_code = Some(0) => Len(failed_files) = Cardinality(FailedCalls)

\* C3: the stages of a file run in the fixed order, each only after every
\* earlier one returned true; nothing runs after a stage that returned false,
\* and the artifact exists only when all seven ran and the six before the
\* export returned true.
C3_StagesInOrderShortCircuit ==
    \A i \in 1..Len(hist) :
        LET r == hist[i].ran
        IN  /\ Len(r) <= Len(ChainNames)
            /\ \A k \in 1..Len(r) : r[k][1] = ChainNames[k] /\ (k < Len(r) => r[k][2])
            /\ hist[i].exported => Len(r) = Len(ChainNames) /\ \A k \in 1..Len(r) : r[k][2]
            /\ fs[OutputPath(hist[i].file)].kind = "output" => hist[i].exported

\* one file stopped at the decomposition stage (it returned false, nothing ran
\* after it, no artifact) and another went through to the export
C3_Witness ==
    \E i, j \in 1..Len(hist) :
        /\ Len(hist[i].ran) = 5
        /\ hist[i].ran[5] = <<"create_split_data", FALSE>>
        /\ fs[OutputPath(hist[i].file)].kind = "absent"
        /\ Ended(i)
        /\ hist[j].exported
        /\ Len(hist[j].ran) = 7

\* C4 as stated: cleanup ran exactly once for every call that has ended, the
\* session is closed and row_counts is empty after it, and the scratch file
\* is gone unless keep_temp is set.
C4_ScratchAlwaysDeleted ==
    /\ \A i \in 1..Len(hist) :
          Ended(i) => /\ hist[i].cleanups = 1
                      /\ ~keep_temp => fs[ScratchPath(hist[i].file)].kind = "absent"
    /\ pc \in {"return", "loop", "done"} => conn = "None" /\ row_counts = NoCounts

\* C4, amended: as above, with the scratch file gone unless keep_temp is set
\* or os.remove raised (cleanup logs a warning and goes on), for every call
\* that got as far as naming its scratch file (db_file); cleanup never runs
\* twice for a call.
C4_CleanupOncePerFile ==
    /\ \A i \in 1..Len(hist) :
          /\ hist[i].cleanups <= 1
          /\ Ended(i) =>
                /\ hist[i].cleanups = 1
                /\ (~keep_temp /\ ~hist[i].rm_failed /\ hist[i].ran # <<>>) =>
                       fs[ScratchPath(hist[i].file)].kind = "absent"
                /\ hist[i].rm_failed => fs[ScratchPath(hist[i].file)].kind # "absent"
    /\ pc \in {"return", "loop", "done"} => conn = "None" /\ row_counts = NoCounts

\* a user interrupt arrived after some stages of a file had run: cleanup ran
\* once, removed the scratch file, closed the session and emptied row_counts
C4_Witness ==
    /\ pc = "return"
    /\ exc = "KeyboardInterrupt"
    /\ Len(hist[Cur].ran) >= 3
    /\ hist[Cur].cleanups = 1
    /\ hist[Cur].rm_tried /\ ~hist[Cur].rm_failed
    /\ ~keep_temp
    /\ fs[ScratchPath(hist[Cur].file)].kind = "absent"
    /\ conn = "None" /\ row_counts = NoCounts

\* C5: at strike-distance 0 a CE row and a PE row are both labelled ATM.
C5_ZeroIsATM ==
    (cls.applied /\ cls.strdifference = Some(0)) =>
        /\ cls.moneyness[Some(CE)] = Some("ATM")
        /\ cls.moneyness[Some(PE)] = Some("ATM")

\* C6: for every integer d, CE is DEEPITM iff d <= -501 and DEEPOTM iff
\* d >= 551, PE is DEEPOTM iff d <= -501 and DEEPITM iff d >= 551, and no row
\* with -500 <= d <= 550 has a DEEP label.
C6_DeepThresholds ==
    (cls.applied /\ ~IsNull(cls.strdifference)) =>
        LET d  == Val(cls.strdifference)
            ce == cls.moneyness[Some(CE)]
            pe == cls.moneyness[Some(PE)]
        IN  /\ (ce = Some("DEEPITM")) <=> (d <= -501)
            /\ (ce = Some("DEEPOTM")) <=> (d >= 551)
            /\ (pe = Some("DEEPOTM")) <=> (d <= -501)
            /\ (pe = Some("DEEPITM")) <=> (d >= 551)
            /\ (-500 <= d /\ d <= 550) =>
                   \A t \in OptionTypes : cls.moneyness[t] \notin DeepLabels

\* the classifier applied at the lower threshold itself
C6_Witness ==
    /\ cls.applied
    /\ cls.strdifference = Some(-501)
    /\ cls.moneyness[Some(CE)] = Some("DEEPITM")
    /\ cls.moneyness[Some(PE)] = Some("DEEPOTM")

PlusLabels  == <<"ATM+1", "ATM+2", "ATM+3", "ATM+4", "ATM+5",
                 "ATM+6", "ATM+7", "ATM+8", "ATM+9", "ATM+10">>
MinusLabels == <<"ATM-1", "ATM-2", "ATM-3", "ATM-4", "ATM-5",
                 "ATM-6", "ATM-7", "ATM-8", "ATM-9", "ATM-10">>
\* the mirror image of a label: ATM+k <-> ATM-k, ATM <-> ATM, DEEPITM <-> DEEPOTM
MirrorLabel(l) ==
    IF IsNull(l) THEN NULL
    ELSE IF Val(l) = "ATM" THEN l
    ELSE IF Val(l) = "DEEPITM" THEN Some("DEEPOTM")
    ELSE IF Val(l) = "DEEPOTM" THEN Some("DEEPITM")
    ELSE IF \E k \in 1..Len(PlusLabels) : PlusLabels[k] = Val(l)
         THEN Some(MinusLabels[CHOOSE k \in 1..Len(PlusLabels) : PlusLabels[k] = Val(l)])
    ELSE Some(PlusLabels[CHOOSE k \in 1..Len(MinusLabels) : MinusLabels[k] = Val(l)])

\* C7: for every integer d the PE label at d is the mirror image of the CE
\* label at d (and both are labels).
C7_PutMirrorsCall ==
    (cls.applied /\ ~IsNull(cls.strdifference)) =>
        /\ ~IsNull(cls.moneyness[Some(CE)])
        /\ cls.moneyness[Some(PE)] = MirrorLabel(cls.moneyness[Some(CE)])

\* the classifier applied at distance 0, where two listed ranges overlap:
\* the call is ATM-1 and the put its mirror image ATM+1
C7_Witness ==
    /\ cls.applied
    /\ cls.strdifference = Some(0)
    /\ cls.moneyness[Some(CE)] = Some("ATM-1")
    /\ cls.moneyness[Some(PE)] = Some("ATM+1")

DeepCount(rows) == Cardinality({i \in 1..Len(rows) : rows[i].moneyness \in DeepLabels})
NullCount(rows) == Cardinality({i \in 1..Len(rows) : IsNull(rows[i].moneyness)})

\* C8: a step in which filter_and_export succeeds writes an artifact with no
\* DEEPITM or DEEPOTM row, whose row count is the cal_data row count before
\* the delete minus the number of DEEP rows then, and which keeps every row
\* with a null moneyness.
C8_ExportDropsExactlyDeep ==
    [][(pc = "stages" /\ stage = 6 /\ ret' = Some(TRUE)) =>
          LET before == Db.cal_data
              out    == fs'[Val(current_output)].rows
          IN  /\ \A i \in 1..Len(out) : out[i].moneyness \notin DeepLabels
              /\ Len(out) = Len(before) - DeepCount(before)
              /\ NullCount(out) = NullCount(before)]_vars

\* an export just made from a fresh scratch database: DEEP rows were deleted
\* (fewer rows than option rows) and rows with a null moneyness are in it
C8_Witness ==
    /\ pc = "finally"
    /\ hist[Cur].exported
    /\ Len(Db.cal_data) < Len(Db.options)
    /\ Len(Db.options) = Cardinality({i \in 1..Len(ReadParquet.rows) :
                              /\ IsOptionSymbol(SymbolText[ReadParquet.rows[i].symbol])
                              /\ InWindow(ReadParquet.rows[i].time)})
    /\ Len(fs[Val(current_output)].rows) = Len(Db.cal_data)
    /\ NullCount(fs[Val(current_output)].rows) > 0

\* the in-window option rows of a source file
InWindowOptions(stem) ==
    SelectSeq(FileRows[stem],
              LAMBDA r : IsOptionSymbol(SymbolText[r.symbol]) /\ InWindow(r.time))

\* C9: the artifact just written is sorted ascending by (date, time, symbol)
\* and holds each (date, time, symbol) at most as often as the in-window
\* option rows of the source file do.
C9_SortedNoAddedDuplicates ==
    (pc = "finally" /\ hist[Cur].exported) =>
        LET out  == fs[Val(current_output)].rows
            src  == InWindowOptions(Val(current_file)[2])
            skey == [j \in 1..Len(src) |->
                        <<StrpDate(src[j].date).val, CastTime(src[j].time).val, src[j].symbol>>]
            okey == [j \in 1..Len(out) |-> <<out[j].date, out[j].time, out[j].symbol>>]
        IN  /\ \A i \in 1..(Len(out) - 1) : ~KeyLess(out[i + 1], out[i])
            /\ \A i \in 1..Len(out) :
                  Cardinality({j \in 1..Len(out) : okey[j] = okey[i]})
                      <= Cardinality({j \in 1..Len(src) : skey[j] = okey[i]})

\* the source file holds an in-window option row whose symbol starts with
\* the index root and does not match the symbol grammar
HasGrammarMiss(stem) ==
    \E i \in 1..Len(FileRows[stem]) :
        LET r == FileRows[stem][i]
        IN  /\ IsOptionSymbol(SymbolText[r.symbol]) /\ InWindow(r.time)
            /\ StartsWith(SymbolText[r.symbol], NIFTY)
            /\ SymbolGroups[r.symbol] = NoGroups

\* the number of splits rows the file's option symbols that do match the
\* grammar give: what the row-count gate on splits would count
MatchingSymbols(stem) ==
    Cardinality({<<r.symbol, r.date>> : r \in
                    {x \in Range(InWindowOptions(stem)) :
                        /\ StartsWith(SymbolText[x.symbol], NIFTY)
                        /\ SymbolGroups[x.symbol] # NoGroups}})

\* C10: for a file that holds an option symbol starting with the index root
\* that does not match the grammar, create_split_data returns true unless
\* the row-count gate on splits fails (validation on and fewer than 10 rows).
C10_GrammarMissNotFatal ==
    \A i \in 1..Len(hist) :
        (/\ HasGrammarMiss(hist[i].file[2])
         /\ Len(hist[i].ran) >= 5
         /\ validate => MatchingSymbols(hist[i].file[2]) >= MinSplitRows)
            => hist[i].ran[5][2]

\* a session is open on a scratch database
SessionOpen == pc \in {"stages", "finally"} /\ ~IsNull(db_file) /\ fs[Val(db_file)].kind = "db"

\* the option symbols NIFTY 25 JAN 24 <strike> CE|PE of the model, and what
\* their text says (2024-01-25 is day 19747 of the epoch)
WellFormedSids == 1..NOptSyms
ExpectedSplit(sid) ==
    [instrument |-> Some(NIFTY), expiry_date |-> Some(19747),
     strike_price |-> Some(Strikes[(sid + 1) \div 2]),
     option_type |-> Some(IF sid % 2 = 1 THEN CE ELSE PE)]
SplitFields(r) ==
    [instrument |-> r.instrument, expiry_date |-> r.expiry_date,
     strike_price |-> r.strike_price, option_type |-> r.option_type]
\* stage k of the chain has returned true in the current call of process_file
StageReturnedTrue(k) == Len(hist[Cur].ran) >= k + 1 /\ hist[Cur].ran[k + 1][2]

\* C11: every splits row of a symbol INSTRUMENT DD MON YY STRIKE CE|PE that
\* begins with the index root carries the letter prefix, the date (2000+YY,
\* MON, DD), the strike as an integer and the suffix; when create_split_data
\* has returned true every such symbol of the options relation has a splits
\* row; and an enriched row of such a symbol for whose (date, time) an index
\* row and a future row exist has non-null spot, strdifference, dte and
\* moneyness.
C11_Decomposition ==
    SessionOpen =>
        /\ \A i \in 1..Len(Db.splits) :
              Db.splits[i].symbol \in WellFormedSids
                  => SplitFields(Db.splits[i]) = ExpectedSplit(Db.splits[i].symbol)
        /\ StageReturnedTrue(4) =>
              \A i \in 1..Len(Db.options) :
                  Db.options[i].symbol \in WellFormedSids
                      => \E j \in 1..Len(Db.splits) : Db.splits[j].symbol = Db.options[i].symbol
        /\ \A i \in 1..Len(Db.cal_data) :
              LET c == Db.cal_data[i]
              IN  (/\ c.symbol \in WellFormedSids
                   /\ \E j \in 1..Len(Db.index_data) :
                         Db.index_data[j].date = c.date /\ Db.index_data[j].time = c.time
                   /\ \E j \in 1..Len(Db.future_data) :
                         Db.future_data[j].date = c.date /\ Db.future_data[j].time = c.time)
                      => /\ ~IsNull(c.spot) /\ ~IsNull(c.strdifference)
                         /\ ~IsNull(c.dte) /\ ~IsNull(c.moneyness)

\* NIFTY25JAN2421500CE is decomposed and enriched
C11_Witness ==
    /\ SessionOpen
    /\ \E i \in 1..Len(Db.splits) :
          /\ SymbolText[Db.splits[i].symbol] = NIFTY \o ExpiryToken \o Digits(21500) \o CE
          /\ SplitFields(Db.splits[i]) =
                [instrument |-> Some(NIFTY), expiry_date |-> Some(19747),
                 strike_price |-> Some(21500), option_type |-> Some(CE)]
    /\ \E i \in 1..Len(Db.cal_data) :
          /\ SymbolText[Db.cal_data[i].symbol] = NIFTY \o ExpiryToken \o Digits(21500) \o CE
          /\ ~IsNull(Db.cal_data[i].spot) /\ ~IsNull(Db.cal_data[i].strdifference)
          /\ Db.cal_data[i].dte = Some(24) /\ ~IsNull(Db.cal_data[i].moneyness)

\* the in-window index rows and future rows of a source file
InWindowIndex(stem) ==
    SelectSeq(FileRows[stem], LAMBDA r : SymbolText[r.symbol] = IndexSymbol /\ InWindow(r.time))
InWindowFuture(stem) ==
    SelectSeq(FileRows[stem], LAMBDA r : SymbolText[r.symbol] = FutureSymbol /\ InWindow(r.time))

\* the extraction stage (1 options, 2 index, 3 future) at which a file falls
\* below its row-count gate; 0 when it passes all three
ShortAt(stem) ==
    IF Len(InWindowOptions(stem)) < 100 THEN 1
    ELSE IF Len(InWindowIndex(stem)) < 10 THEN 2
    ELSE IF Len(InWindowFuture(stem)) < 10 THEN 3
    ELSE 0

\* C12: with validation on, a file with fewer than 100 in-window option rows,
\* or fewer than 10 in-window index rows or future rows, fails at that
\* extraction stage: the stage returns false, no later stage runs, nothing is
\* exported and process_file returns false.
C12_ShortFileFailsAtExtraction ==
    validate =>
        \A i \in 1..Len(hist) :
            LET k == ShortAt(hist[i].file[2])
            IN  (k > 0 /\ Len(hist[i].ran) >= k + 1) =>
                    /\ ~hist[i].ran[k + 1][2]
                    /\ Len(hist[i].ran) = k + 1
                    /\ ~hist[i].exported
                    /\ hist[i].ret \in {NULL, Some(FALSE)}

\* the relation stage k of the chain fills, for the three extraction stages
RawRelation(k, db) == IF k = 1 THEN db.options ELSE IF k = 2 THEN db.index_data ELSE db.future_data
\* the rows of a relation as <<date, time>> (options: <<date, time, symbol>>)
RawKeys(k, rel) ==
    [i \in 1..Len(rel) |->
        IF k = 1 THEN <<rel[i].date, rel[i].time, rel[i].symbol>> ELSE <<rel[i].date, rel[i].time>>]
\* the rows of the source file that pass stage k's symbol filter and whose
\* time of day lies in 09:15:00..15:29:00, counted in seconds
InWindowKeys(k, stem) ==
    LET passes(r) ==
            /\ IF k = 1 THEN Contains(SymbolText[r.symbol], CE) \/ Contains(SymbolText[r.symbol], PE)
               ELSE IF k = 2 THEN SymbolText[r.symbol] = <<"N","I","F","T","Y">>
               ELSE SymbolText[r.symbol] = <<"N","I","F","T","Y","-","I">>
            /\ r.time[1] * 3600 + r.time[2] * 60 + r.time[3] >= 9 * 3600 + 15 * 60
            /\ r.time[1] * 3600 + r.time[2] * 60 + r.time[3] <= 15 * 3600 + 29 * 60
        sel == SelectSeq(FileRows[stem], passes)
    IN  [i \in 1..Len(sel) |->
            LET d == DaysFromCivil(sel[i].date[3], sel[i].date[2], sel[i].date[1])
                t == sel[i].time[1] * 3600 + sel[i].time[2] * 60 + sel[i].time[3]
            IN  IF k = 1 THEN <<d, t, sel[i].symbol>> ELSE <<d, t>>]

\* C13: an extraction stage (options, index, future) adds to its relation
\* exactly the source rows that pass its symbol filter and whose time t
\* satisfies 09:15:00 <= t <= 15:29:00, both ends included; when the stage
\* returns true it has added them, and a stage that raises adds nothing.
C13_WindowInclusive ==
    [][(pc = "stages" /\ stage \in 1..3 /\ Len(hist'[Cur].ran) = Len(hist[Cur].ran) + 1) =>
          \E k \in {stage} :
              \E old \in {RawKeys(k, RawRelation(k, Db))} :
                  \E new \in {RawKeys(k, RawRelation(k, fs'[Val(db_file)].db))} :
                      \E add \in {InWindowKeys(k, Val(current_file)[2])} :
                          /\ new = old \/ new = old \o add
                          /\ hist'[Cur].ran[k + 1][2] => new = old \o add]_vars

\* the three relations hold the rows at exactly 09:15:00 and 15:29:00 and no
\* row of 09:14:59, 15:29:01 or 15:30:00, all of which the source file has
C13_Witness ==
    /\ SessionOpen
    /\ StageReturnedTrue(3)
    /\ \A k \in 1..3 :
          /\ \E i \in 1..Len(RawRelation(k, Db)) : RawRelation(k, Db)[i].time = 33300
          /\ \E i \in 1..Len(RawRelation(k, Db)) : RawRelation(k, Db)[i].time = 55740
          /\ \A i \in 1..Len(RawRelation(k, Db)) : RawRelation(k, Db)[i].time \in 33300..55740
    /\ \E i \in 1..Len(FileRows[Val(current_file)[2]]) :
          FileRows[Val(current_file)[2]][i].time = <<9, 14, 59>>
    /\ \E i \in 1..Len(FileRows[Val(current_file)[2]]) :
          FileRows[Val(current_file)[2]][i].time = <<15, 29, 1>>

\* the index rows with the (date, time) of an enriched row, and the splits
\* rows with its symbol
IndexMatches(c) == {j \in 1..Len(Db.index_data) : Db.index_data[j].date = c.date /\ Db.index_data[j].time = c.time}
SplitMatches(c) == {j \in 1..Len(Db.splits) : Db.splits[j].symbol = c.symbol}
\* a - b with NULL for a NULL operand
MinusOrNull(a, b) == IF IsNull(a) \/ IsNull(b) THEN NULL ELSE Some(Val(a) - Val(b))

\* C14: once create_cal_data has run, an enriched row whose (date, time) has
\* exactly one index row has that row's idx_close as spot, strike_price - spot
\* as strdifference and expiry_date - date in days as dte; a row with no
\* index row, or whose symbol has no splits row, has null strdifference and
\* moneyness; and before the export every options row has its enriched row.
C14_EnrichedValues ==
    (SessionOpen /\ Len(hist[Cur].ran) >= 6) =>
        /\ \A i \in 1..Len(Db.cal_data) :
              \E c \in {Db.cal_data[i]} :
                  \E M \in {IndexMatches(c)}, S \in {SplitMatches(c)} :
                      /\ Cardinality(M) = 1 =>
                            \A j \in M :
                                /\ c.spot = Some(Db.index_data[j].idx_close)
                                /\ c.strdifference = MinusOrNull(c.strike_price, c.spot)
                                /\ c.dte = MinusOrNull(c.expiry_date, Some(c.date))
                                /\ \A s \in S : /\ c.strike_price = Db.splits[s].strike_price
                                                /\ c.expiry_date = Db.splits[s].expiry_date
                      /\ (M = {} \/ S = {}) => IsNull(c.strdifference) /\ IsNull(c.moneyness)
        /\ (pc = "stages" /\ stage = 6) =>
              \A i \in 1..Len(Db.options) :
                  \E j \in 1..Len(Db.cal_data) :
                      /\ Db.cal_data[j].symbol = Db.options[i].symbol
                      /\ Db.cal_data[j].date = Db.options[i].date
                      /\ Db.cal_data[j].time = Db.options[i].time

\* after enrichment one row has a unique index row, a strike and a non-null
\* strike-distance, another has no index row, a third has no splits row
C14_Witness ==
    /\ SessionOpen /\ pc = "stages" /\ stage = 6
    /\ \E i \in 1..Len(Db.cal_data) :
          /\ Cardinality(IndexMatches(Db.cal_data[i])) = 1
          /\ SplitMatches(Db.cal_data[i]) # {}
          /\ ~IsNull(Db.cal_data[i].strdifference)
          /\ Val(Db.cal_data[i].strdifference) =
                Val(Db.cal_data[i].strike_price) - Val(Db.cal_data[i].idx_close)
    /\ \E i \in 1..Len(Db.cal_data) :
          /\ IndexMatches(Db.cal_data[i]) = {} /\ SplitMatches(Db.cal_data[i]) # {}
          /\ IsNull(Db.cal_data[i].strdifference) /\ IsNull(Db.cal_data[i].moneyness)
    /\ \E i \in 1..Len(Db.cal_data) :
          /\ SplitMatches(Db.cal_data[i]) = {} /\ IndexMatches(Db.cal_data[i]) # {}
          /\ IsNull(Db.cal_data[i].strdifference) /\ IsNull(Db.cal_data[i].moneyness)

\* C15: main returns 0 when the loop ran to its end (every matched file was
\* passed to process_file and every call returned), whatever the files did;
\* 1 when no file matched (no file is processed) or another exception reached
\* main; 130 when a user interrupt reached main; and once main has returned
\* no further file is started.
C15_ExitCodes ==
    /\ [](/\ (pc = "done") = (exit_code # NULL)
          /\ exit_code # NULL =>
                exit_code = Some(IF exc = "KeyboardInterrupt" THEN 130
                                 ELSE IF exc = "Exception" \/ input_files = <<>> THEN 1
                                 ELSE 0)
          /\ exit_code = Some(0) =>
                /\ input_files # <<>> /\ exc = "none"
                /\ Processed = input_files
                /\ \A i \in 1..Len(hist) : hist[i].ret # NULL
          /\ input_files = <<>> => hist = <<>> /\ exit_code \in {NULL, Some(1)})
    /\ [][exit_code # NULL => hist' = hist]_vars

\* main has returned 0 after a batch of two files that both failed
C15_Witness ==
    /\ exit_code = Some(0)
    /\ Len(hist) = 2
    /\ \A i \in 1..Len(hist) : hist[i].ret = Some(FALSE)
    /\ successful_count = 0 /\ file_count = 2

\* main has returned 130 after an interrupt inside the first of two files
C15_InterruptWitness ==
    /\ exit_code = Some(130)
    /\ Len(input_files) = 2 /\ Len(hist) = 1
    /\ hist[1].ret = NULL

\* C16: with the configuration as shipped the command line can disable the
\* extra validation as well as enable it: --validate turns it on (store_true),
\* so the invocation that disables it is the one without the flag.
C16_CommandLineCanDisable ==
    cmdline.validate_data = validate_data => (validate = cmdline.validate_flag)

\* C17: when extraction begins for a file (setup_database has run and
\* create_option_data is the next call) the five relations are empty.
C17_RelationsEmptyAtStart ==
    (pc = "stages" /\ stage = 1 /\ Len(hist[Cur].ran) = 1) =>
        /\ Db.options = <<>> /\ Db.index_data = <<>> /\ Db.future_data = <<>>
        /\ Db.splits = <<>> /\ Db.cal_data = <<>>

\* C18: the scratch path of every matched input file differs from the input
\* path; no input file is ever removed or replaced, and db_file never names
\* an input file.
C18_ScratchIsNotInput ==
    /\ \A i \in 1..Len(input_files) : ScratchPath(input_files[i]) # input_files[i]
    /\ \A i \in 1..Len(input_files) : fs[input_files[i]].kind = "input"
    /\ db_file # NULL => \A i \in 1..Len(input_files) : Val(db_file) # input_files[i]

\* C19: once create_split_data has run, no two rows of splits share a symbol,
\* and the row of a symbol carries the earliest trade date of the symbol's
\* option rows.
C19_OneSplitRowPerSymbol ==
    (SessionOpen /\ Len(hist[Cur].ran) >= 5) =>
        /\ \A i, j \in 1..Len(Db.splits) : Db.splits[i].symbol = Db.splits[j].symbol => i = j
        /\ \A i \in 1..Len(Db.splits) :
              \A k \in 1..Len(Db.options) :
                  Db.options[k].symbol = Db.splits[i].symbol => Db.splits[i].date <= Db.options[k].date

\* C20: every row of splits has non-null instrument, expiry_date,
\* strike_price and option_type; a symbol whose month token is none of
\* JAN..DEC has no row.
C20_SplitRowsComplete ==
    SessionOpen =>
        \A i \in 1..Len(Db.splits) :
            /\ ~IsNull(Db.splits[i].instrument) /\ ~IsNull(Db.splits[i].expiry_date)
            /\ ~IsNull(Db.splits[i].strike_price) /\ ~IsNull(Db.splits[i].option_type)
            /\ Db.splits[i].symbol # SidBadMonth

\* C21: with validation on, a call validate_data(relation, minRows) returns
\* true iff the relation exists and holds at least minRows rows; when the
\* relation exists the observed count is written to row_counts[relation],
\* also when it is below minRows; every other entry of row_counts and every
\* relation keep their contents.
C21_GateCountsAndRecords ==
    [][(pc = "validate_data" /\ validate /\ IsNull(gate.returned) /\ ~IsNull(gate'.returned)) =>
          \E t \in {gate.table_name} :
              \E exists \in {t \in Db.schema} :
                  \E n \in {Len(Db[t])} :
                      /\ gate'.returned = Some(exists /\ n >= gate.expected_min_rows)
                      /\ exists => row_counts'[t] = Some(n)
                      /\ ~exists => row_counts'[t] = row_counts[t]
                      /\ \A u \in TableNames \ {t} : row_counts'[u] = row_counts[u]
                      /\ fs' = fs]_vars

\* a call on an existing relation of 9 rows with threshold 10 has returned
\* false and the ledger holds the 9
C21_Witness ==
    /\ pc = "validate_data" /\ validate
    /\ gate.returned = Some(FALSE)
    /\ gate.table_name \in Db.schema
    /\ gate.expected_min_rows = 10
    /\ Len(Db[gate.table_name]) = 9
    /\ row_counts[gate.table_name] = Some(9)

\* a statement of some stage raises on the file: an in-window row of a
\* selected symbol carries a date that does not exist, or an option symbol
\* starting with the index root misses the grammar or names an expiry date
\* that does not exist
StageRaises(stem) ==
    \/ \E i \in 1..Len(FileRows[stem]) :
          \E r \in {FileRows[stem][i]} :
              /\ r.time[1] * 3600 + r.time[2] * 60 + r.time[3] \in 33300..55740
              /\ \/ Contains(SymbolText[r.symbol], CE) \/ Contains(SymbolText[r.symbol], PE)
                 \/ r.symbol \in {SidIndex, SidFuture}
              /\ ~ValidDate(r.date[3], r.date[2], r.date[1])
    \/ HasGrammarMiss(stem)
    \/ \E i \in 1..Len(InWindowOptions(stem)) : InWindowOptions(stem)[i].symbol = SidNoSuchExpiry

\* the files of the model on which some stage raises
RaisingStems == {x \in Stems : StageRaises(x)}

\* C22: with validation off row_counts stays empty and no gate fails a file:
\* unless a stage raises, every stage that is called returns true (the
\* export included, short of an I/O fault), whatever the row counts, and a
\* call that connected and returned has gone through all six stages.
C22_NoGateWhenOff ==
    ~validate =>
        /\ row_counts = NoCounts
        /\ \A i \in 1..Len(hist) :
              hist[i].file[2] \notin RaisingStems =>
                  /\ \A k \in 2..Len(hist[i].ran) : k <= 6 => hist[i].ran[k][2]
                  /\ (Len(hist[i].ran) = 7 /\ hist[i].ran[7][2]) => hist[i].exported
                  /\ (hist[i].ret # NULL /\ hist[i].ran[1][2]) => Len(hist[i].ran) = 7

\* with validation off a file of 99 in-window option rows has been exported
\* and row_counts is empty
C22_Witness ==
    /\ ~validate
    /\ pc = "finally"
    /\ Len(InWindowOptions(hist[Cur].file[2])) < 100
    /\ Len(InWindowOptions(hist[Cur].file[2])) > 90
    /\ hist[Cur].exported
    /\ ret = Some(TRUE)
    /\ row_counts = NoCounts

\* C23: a row whose option_type is neither CE nor PE (NULL included), or
\* whose strike-distance is NULL, gets a NULL moneyness, and the delete of
\* the export keeps such a row.
C23_NullBucket ==
    cls.applied =>
        \A t \in OptionTypes :
            (t \notin {Some(<<"C","E">>), Some(<<"P","E">>)} \/ IsNull(cls.strdifference)) =>
                /\ IsNull(cls.moneyness[t])
                /\ DeleteDeep(<< [moneyness |-> cls.moneyness[t]] >>) = << [moneyness |-> cls.moneyness[t]] >>

\* at a strike-distance where CE and PE rows are DEEP, a row of another
\* option type and a row without option type have a NULL moneyness
C23_Witness ==
    /\ cls.applied
    /\ cls.strdifference = Some(-600)
    /\ cls.moneyness[Some(CE)] = Some("DEEPITM")
    /\ IsNull(cls.moneyness[Some(<<"X","X">>)])
    /\ IsNull(cls.moneyness[NULL])

\* the 23 bucket labels
BucketLabels ==
    {"ATM", "DEEPITM", "DEEPOTM"} \cup Range(PlusLabels) \cup Range(MinusLabels)
\* the band a strike-distance falls in, by arithmetic on the listed limits:
\* 0 for ATM (1..50), -k for the k-th band below (0 belongs to -50..0, which
\* is listed before 0..50), +k for the k-th band above, +-11 beyond the bands
BandOf(d) ==
    IF d <= -501 THEN -11
    ELSE IF d = 0 THEN -1
    ELSE IF d < 0 THEN 0 - ((((0 - d) - 1) \div 50) + 1)
    ELSE IF d >= 551 THEN 11
    ELSE (d - 1) \div 50
\* the label of band b on the CE side (call) and on the PE side (put)
BandLabel(b, call) ==
    IF b = 0 THEN "ATM"
    ELSE IF b = -11 THEN (IF call THEN "DEEPITM" ELSE "DEEPOTM")
    ELSE IF b = 11 THEN (IF call THEN "DEEPOTM" ELSE "DEEPITM")
    ELSE IF (b < 0) = call THEN MinusLabels[IF b < 0 THEN 0 - b ELSE b]
    ELSE PlusLabels[IF b < 0 THEN 0 - b ELSE b]

\* C24: for CE and for PE and every integer strike-distance the classifier
\* gives one non-null label, one of the 23 bucket labels: the label of the
\* band the distance falls in, the band listed first where two listed ranges
\* contain it, DEEPITM / DEEPOTM beyond the bands, with no gap in between.
C24_TotalSingleValued ==
    (cls.applied /\ ~IsNull(cls.strdifference)) =>
        /\ Cardinality(BucketLabels) = 23
        /\ \A call \in BOOLEAN :
              \E l \in {cls.moneyness[Some(IF call THEN <<"C","E">> ELSE <<"P","E">>)]} :
                  /\ ~IsNull(l)
                  /\ Val(l) \in BucketLabels
                  /\ Val(l) = BandLabel(BandOf(Val(cls.strdifference)), call)

\* at the last strike-distance below the upper DEEP threshold the CE row is
\* ATM+10 and the PE row ATM-10
C24_Witness ==
    /\ cls.applied
    /\ cls.strdifference = Some(550)
    /\ cls.moneyness[Some(CE)] = Some("ATM+10")
    /\ cls.moneyness[Some(PE)] = Some("ATM-10")

\* the nine base columns the seeding copies, as far as the model carries them
BaseColumns(r) == <<r.symbol, r.date, r.time, r.close>>

\* C25: a call of create_cal_data that finds cal_data empty leaves options,
\* index_data, future_data and splits as they were and either leaves
\* cal_data empty (a gate before the seeding failed) or leaves it with one
\* row per options row, in the base columns equal to it, whatever the number
\* of splits, index or future rows that match a row; when the call returns
\* true the rows are there.
C25_EnrichmentKeepsRowCount ==
    [][(/\ pc = "stages" /\ stage = 5
        /\ Db.cal_data = <<>>
        /\ Len(hist'[Cur].ran) = Len(hist[Cur].ran) + 1) =>
          \E old \in {Db} :
              \E new \in {fs'[Val(db_file)].db} :
                  /\ new.options = old.options /\ new.index_data = old.index_data
                  /\ new.future_data = old.future_data /\ new.splits = old.splits
                  /\ \/ new.cal_data = <<>>
                     \/ /\ Len(new.cal_data) = Len(old.options)
                        /\ \A i \in 1..Len(old.options) :
                              BaseColumns(new.cal_data[i]) = BaseColumns(old.options[i])
                  /\ hist'[Cur].ran[6][2] => Len(new.cal_data) = Len(old.options)]_vars

\* enrichment has run on a file whose symbols have two splits rows each and
\* which holds an option row without any splits row: cal_data has exactly
\* the rows of options
C25_Witness ==
    /\ SessionOpen /\ pc = "stages" /\ stage = 6
    /\ Db.options # <<>>
    /\ Len(Db.cal_data) = Len(Db.options)
    /\ \A i \in 1..Len(Db.options) : BaseColumns(Db.cal_data[i]) = BaseColumns(Db.options[i])
    /\ \E i, j \in 1..Len(Db.splits) : i # j /\ Db.splits[i].symbol = Db.splits[j].symbol
    /\ \E i \in 1..Len(Db.cal_data) :
          \A j \in 1..Len(Db.splits) : Db.splits[j].symbol # Db.cal_data[i].symbol

====
